---- MODULE Spec2Model ----
(***************************************************************************)
(* A model of fuzzer_zip.py (SevenZipFuzzer): the mutation strategies over *)
(* byte buffers, the oracle classification of one 7zip run, the crash      *)
(* archiver and the fuzzing loop driven by main.                           *)
(*                                                                         *)
(* Four specifications share the variables:                                *)
(*   Spec          main() and SevenZipFuzzer.fuzz, one step per statement  *)
(*                 group of the loop body;                                 *)
(*   SpecMutate    mutate_zip_structure applied to a seed buffer;          *)
(*   SpecStrategy  one mutation strategy applied to a buffer chosen for    *)
(*                 it, as a pure function of the buffer and the draws;     *)
(*   SpecOracle    run_7zip_test applied to one outcome of the tool.       *)
(* Byte positions are 0-based as in the source; At and Put translate to    *)
(* the 1-based sequences of TLA+.                                          *)
(***************************************************************************)
EXTENDS Integers, Sequences, FiniteSets

VARIABLES
    pc,               \* position of main()/fuzz(); "idle" outside Spec
    base_zip_exists,  \* os.path.exists(self.base_zip_path)
    sevenzip_arg,     \* --sevenzip-path: "None" or "path"
    found_7zip,       \* what find_7zip() returns: "None" or "path"
    sevenzip_path,    \* self.sevenzip_path
    iterations,       \* the budget given to fuzz
    i,                \* the loop variable of fuzz
    iteration_count,  \* self.iteration_count
    crash_count,      \* self.crash_count
    start_time,       \* self.start_time: "None" or "set"
    crash_detected,   \* local of fuzz
    process_result,   \* local of fuzz: <<>> for None, <<p>> for a process
    stop,             \* how the loop ended: "Running" until it does
    stats_out,        \* the Progress line logged by the last step, or None
    final_stats,      \* the Progress line logged by the finally clause
    exit_status,      \* the exit status of the process, -1 while it runs
    mutate_calls,     \* history: calls of mutate_zip_structure that returned or raised
    oracle_calls,     \* history: calls of run_7zip_test
    save_calls,       \* history: calls of save_crash
    all_crash_like,   \* history: every verdict so far was CrashLike
    interrupted,      \* history: a KeyboardInterrupt was delivered in the loop
    io_fault,         \* history: the step of save_crash that failed in this iteration
    completed,        \* history: iterations whose mutation, run_7zip_test and
                      \* save_crash (if any) have all returned
    seed_absent,      \* history: the seed path did not exist at startup
    seed_created,     \* history: create_base_zip wrote the seed
    base_data,        \* the buffer given to a mutation (SpecMutate, SpecStrategy)
    mut,              \* the call of a mutation and what it gave
    outcome,          \* what running 7zip gave (SpecOracle)
    verdict           \* what run_7zip_test returned for it

mainVars == <<base_zip_exists, sevenzip_arg, found_7zip, sevenzip_path,
              exit_status, seed_absent, seed_created>>
loopVars == <<iterations, i, iteration_count, crash_count, start_time,
              crash_detected, process_result, stop, stats_out, final_stats>>
histVars == <<mutate_calls, oracle_calls, save_calls, all_crash_like,
              interrupted, io_fault, completed>>
pureVars == <<base_data, mut, outcome, verdict>>
vars == <<pc, mainVars, loopVars, histVars, pureVars>>

Min(a, b) == IF a < b THEN a ELSE b

(***************************************************************************)
(* Bounds of the model.                                                    *)
(***************************************************************************)
\* The largest iteration budget tried (the default is 10000).
MaxIterations == 101
\* The longest stdout/stderr of the tool, in tokens.
MaxOutLen == 2
\* The most bytes of one header that `random.random() < p` selects.
MaxHits == 2
\* The largest num_mutations drawn by _boundary_value_mutation (of 20).
MaxNumMutations == 2
\* The longest run drawn by _boundary_value_mutation (of 8).
MaxRunLength == 2

(***************************************************************************)
(* Byte buffers and the values the random module is taken to draw.         *)
(***************************************************************************)
At(data, p) == data[p + 1]

Put(data, p, v) == [data EXCEPT ![p + 1] = v]

\* data[pos:pos + 4] == signature
SigAt(data, pos, signature) ==
    /\ pos + 4 <= Len(data)
    /\ \A k \in 0..3 : At(data, pos + k) = signature[k + 1]

local_sig == <<80, 75, 3, 4>>

central_sig == <<80, 75, 1, 2>>

\* random.randint(0, 255)
RandBytes == {0, 255}

\* random.randint(0, 7)
RandBits == {0, 7}

\* A number below 2^32 is kept as its four bytes, low byte first (0xFFFFFFFF
\* is beyond the integers of the checker); ByteOf(value, j) is
\* (value >> (j * 8)) & 0xFF.
ByteOf(value, j) == value[j + 1]

\* random.randint(0, 0xFFFFFFFF): 0, 0x04034B50 (the local signature read as
\* a little-endian number) and 0xFFFFFFFF
RandSizes == {<<0, 0, 0, 0>>, <<80, 75, 3, 4>>, <<255, 255, 255, 255>>}

\* random.randint(1, 255)
RandOperands == {1, 2, 255}

\* random.randint(10, 100)
ExtraLengths == {10, 100}

\* os.urandom(n)
urandom(n) == {[k \in 1..n |-> b] : b \in RandBytes}

\* What a strategy gives: the buffer, and whether it left by an exception.
\* hits is filled by _mutate_compression_methods only.
Ok(data) == [raised |-> FALSE, data |-> data, hits |-> {}]

Raised(data) == [raised |-> TRUE, data |-> data, hits |-> {}]

(***************************************************************************)
(* The mutation strategies. Each gives the set of its possible results.    *)
(***************************************************************************)
\* for i in range(k, header_size): if random.random() < p: data[pos + i] = randint(0, 255)
RECURSIVE HeaderBytes(_, _, _, _, _)
HeaderBytes(data, pos, k, header_size, hits_left) ==
    IF k >= header_size THEN {data}
    ELSE HeaderBytes(data, pos, k + 1, header_size, hits_left)
         \cup (IF hits_left > 0
               THEN UNION {HeaderBytes(Put(data, pos + k, v), pos, k + 1,
                                       header_size, hits_left - 1)
                           : v \in RandBytes}
               ELSE {})

\* The scan of _corrupt_local_headers (size 30) and _corrupt_central_directory
\* (size 46) from position pos.
RECURSIVE ScanHeaders(_, _, _, _)
ScanHeaders(data, pos, signature, size) ==
    IF ~(pos < Len(data) - 4) THEN {data}
    ELSE IF SigAt(data, pos, signature)
    THEN LET header_size == Min(size, Len(data) - pos) IN
         UNION {ScanHeaders(d, pos + header_size + 1, signature, size)
                : d \in HeaderBytes(data, pos, 4, header_size, MaxHits)}
    ELSE ScanHeaders(data, pos + 1, signature, size)

_corrupt_local_headers(data) ==
    {Ok(d) : d \in ScanHeaders(data, 0, local_sig, 30)}

_corrupt_central_directory(data) ==
    {Ok(d) : d \in ScanHeaders(data, 0, central_sig, 46)}

\* random.choice([0, 1, 8, 9, 12, 14, 96, 99, 255])
method_codes == {0, 1, 8, 9, 12, 14, 96, 99, 255}

\* The byte written for a signature met at pos.
MethodOffset_Seven(pos) == pos + 7

MethodOffset(pos) == pos + 8

\* One pass of _mutate_compression_methods from position pos: the loop
\* `while pos < len(data) - 8` steps to the next position at which it meets
\* the signature, writes a method code 8 bytes after it, and goes on from the
\* position after; r.hits collects the positions at which it met one.
RECURSIVE ScanMethods(_, _, _)
ScanMethods(r, pos, signature) ==
    LET met == {q \in pos..(Len(r.data) - 9) : SigAt(r.data, q, signature)} IN
    IF met = {} THEN {r}
    ELSE LET q == CHOOSE m \in met : \A o \in met : m <= o IN
         IF MethodOffset(q) < Len(r.data)
         THEN UNION {ScanMethods([data |-> Put(r.data, MethodOffset(q), c),
                                  hits |-> r.hits \cup {q}],
                                 q + 1, signature)
                     : c \in method_codes}
         ELSE ScanMethods([r EXCEPT !.hits = @ \cup {q}], q + 1, signature)

\* for signature in [local_sig, central_sig]: the results with their hits.
_mutate_compression_methods(data) ==
    UNION {ScanMethods(r, 0, central_sig)
           : r \in ScanMethods([data |-> data, hits |-> {}], 0, local_sig)}

\* for i in range(4): data[at + i] = random.randint(0, 255)
RECURSIVE RandomBytesAt(_, _, _)
RandomBytesAt(data, at, n) ==
    IF n = 0 THEN {data}
    ELSE UNION {RandomBytesAt(Put(data, at, v), at + 1, n - 1) : v \in RandBytes}

RECURSIVE ScanCrc(_, _, _)
ScanCrc(data, pos, signature) ==
    IF ~(pos < Len(data) - 16) THEN {data}
    ELSE IF SigAt(data, pos, signature)
    THEN LET crc_offset == IF signature = local_sig THEN 14 ELSE 16 IN
         IF pos + crc_offset + 4 < Len(data)
         THEN UNION {ScanCrc(d, pos + 1, signature)
                     : d \in RandomBytesAt(data, pos + crc_offset, 4)}
         ELSE ScanCrc(data, pos + 1, signature)
    ELSE ScanCrc(data, pos + 1, signature)

_corrupt_crc_values(data) ==
    {Ok(d) : d \in UNION {ScanCrc(l, 0, central_sig)
                          : l \in ScanCrc(data, 0, local_sig)}}

\* for j in range(n): if at + j < len(data): data[at + j] = (value >> (j * 8)) & 0xFF
WriteLittleEndian(data, at, value, n) ==
    [p \in 1..Len(data) |->
        IF p - 1 >= at /\ p - 1 < at + n
        THEN ByteOf(value, p - 1 - at)
        ELSE data[p]]

\* for offset in [18, 22]: if pos + offset + 4 < len(data): write a random size
SizeField(data, pos, offset) ==
    IF pos + offset + 4 < Len(data)
    THEN {WriteLittleEndian(data, pos + offset, size, 4) : size \in RandSizes}
    ELSE {data}

RECURSIVE ScanSizes(_, _)
ScanSizes(data, pos) ==
    IF ~(pos < Len(data) - 26) THEN {data}
    ELSE IF SigAt(data, pos, local_sig)
    THEN UNION {ScanSizes(d, pos + 31)
                : d \in UNION {SizeField(c, pos, 22) : c \in SizeField(data, pos, 18)}}
    ELSE ScanSizes(data, pos + 1)

_mutate_file_sizes(data) == {Ok(d) : d \in ScanSizes(data, 0)}

headers ==
    {<<80, 75, 3, 4>>, <<80, 75, 1, 2>>, <<80, 75, 5, 6>>, <<80, 75, 6, 7>>,
     <<80, 75, 7, 8>>, <<80, 75, 8, 7>>}

_inject_random_headers(data) ==
    IF Len(data) < 5000
    THEN {Ok(SubSeq(data, 1, position) \o header \o extra_data
             \o SubSeq(data, position + 1, Len(data)))
          : header \in headers, position \in 0..Len(data),
            extra_data \in UNION {urandom(n) : n \in ExtraLengths}}
    ELSE {Ok(data)}

\* data[pos] ^= 1 << bit
FlipBit(byte, bit) ==
    IF (byte \div (2 ^ bit)) % 2 = 1 THEN byte - 2 ^ bit ELSE byte + 2 ^ bit

\* The loop of _bit_flip_mutation with n iterations left.
RECURSIVE Flips(_, _)
Flips(data, n) ==
    IF n = 0 \/ Len(data) = 0 THEN {data}
    ELSE UNION {Flips(Put(data, pos, FlipBit(At(data, pos), bit)), n - 1)
                : pos \in 0..(Len(data) - 1), bit \in RandBits}

\* random.randint(1, min(100, len(data) // 10)) raises ValueError on an empty
\* range.
_bit_flip_mutation(data) ==
    LET most == Min(100, Len(data) \div 10) IN
    IF most < 1 THEN {Raised(data)}
    ELSE {Ok(d) : d \in UNION {Flips(data, num_mutations) : num_mutations \in 1..most}}

\* [0x00, 0xFF, 0x7F, 0x80, 0xFFFF, 0xFFFFFFFF]
boundary_values ==
    {<<0, 0, 0, 0>>, <<255, 0, 0, 0>>, <<127, 0, 0, 0>>, <<128, 0, 0, 0>>,
     <<255, 255, 0, 0>>, <<255, 255, 255, 255>>}

\* for i in range(k, length): value = random.choice(boundary_values); write
\* its min(4, length - i) low bytes at pos + i.
RECURSIVE BoundaryRun(_, _, _, _)
BoundaryRun(data, pos, length, k) ==
    IF k >= length THEN {data}
    ELSE IF pos + k < Len(data)
    THEN UNION {BoundaryRun(WriteLittleEndian(data, pos + k, value,
                                              Min(4, length - k)),
                            pos, length, k + 1)
                : value \in boundary_values}
    ELSE BoundaryRun(data, pos, length, k + 1)

\* The loop of _boundary_value_mutation with n iterations left: a single byte
\* (random.random() < 0.3) and the loop goes on, or a run of
\* random.randint(2, min(8, len(data) - pos)) bytes and `break`; randint
\* raises ValueError when pos is the last position.
RECURSIVE BoundaryLoop(_, _)
BoundaryLoop(data, n) ==
    IF n = 0 THEN {Ok(data)}
    ELSE UNION {
           UNION {BoundaryLoop(Put(data, pos, ByteOf(value, 0)), n - 1)
                  : value \in boundary_values}
           \cup (LET most == Min(8, Len(data) - pos) IN
                 IF most < 2 THEN {Raised(data)}
                 ELSE {Ok(d) : d \in UNION {BoundaryRun(data, pos, length, 0)
                                            : length \in 2..Min(most, MaxRunLength)}})
           : pos \in 0..(Len(data) - 1)}

_boundary_value_mutation(data) ==
    IF Len(data) > 10
    THEN UNION {BoundaryLoop(data, num_mutations)
                : num_mutations \in 1..Min(20, MaxNumMutations)}
    ELSE {Ok(data)}

_repeat_byte_mutation(data) ==
    IF Len(data) > 20
    THEN UNION {{Ok([p \in 1..Len(data) |->
                       IF p - 1 >= start_pos /\ p - 1 < start_pos + length
                       THEN pattern ELSE data[p]])
                 : length \in 5..Min(50, Len(data) - start_pos)}
                : pattern \in RandBytes, start_pos \in 0..(Len(data) - 10)}
    ELSE {Ok(data)}

_arithmetic_mutation(data) ==
    IF Len(data) > 10
    THEN UNION {{Ok(Put(data, pos, (At(data, pos) + value) % 256)),
                 Ok(Put(data, pos, (At(data, pos) + 256 - value) % 256)),
                 Ok(Put(data, pos, (At(data, pos) * value) % 256))}
                : pos \in 0..(Len(data) - 1), value \in RandOperands}
    ELSE {Ok(data)}

\* The strategy mutate_zip_structure calls for mutation_type.
Strategy(mutation_type, data) ==
    CASE mutation_type = 1 -> _corrupt_local_headers(data)
      [] mutation_type = 2 -> _corrupt_central_directory(data)
      [] mutation_type = 3 -> {[raised |-> FALSE, data |-> r.data, hits |-> r.hits]
                               : r \in _mutate_compression_methods(data)}
      [] mutation_type = 4 -> _corrupt_crc_values(data)
      [] mutation_type = 5 -> _mutate_file_sizes(data)
      [] mutation_type = 6 -> _inject_random_headers(data)
      [] mutation_type = 7 -> _bit_flip_mutation(data)
      [] mutation_type = 8 -> _boundary_value_mutation(data)
      [] mutation_type = 9 -> _repeat_byte_mutation(data)
      [] OTHER -> _arithmetic_mutation(data)

\* What a call of a mutation leaves in mut.
Returned(mutation_type, data) ==
    [status |-> "returned", mutation_type |-> mutation_type, data |-> data,
     fallback |-> FALSE, fallback_base |-> <<>>, hits |-> {}]

\* The except clause of mutate_zip_structure: _bit_flip_mutation on the same
\* bytearray the failed strategy was given, as the strategy left it.
Fallback(mutation_type, data) ==
    {[status |-> IF f.raised THEN "raised" ELSE "returned",
      mutation_type |-> mutation_type, data |-> f.data,
      fallback |-> TRUE, fallback_base |-> data, hits |-> {}]
     : f \in _bit_flip_mutation(data)}

\* mutate_zip_structure: the set of its possible results.
mutate_zip_structure(data) ==
    IF Len(data) = 0 THEN {Returned(0, data)}
    ELSE UNION {UNION {IF o.raised
                       THEN Fallback(mutation_type, o.data)
                       ELSE {Returned(mutation_type, o.data)}
                       : o \in Strategy(mutation_type, data)}
                : mutation_type \in 1..10}

(***************************************************************************)
(* The oracle: run_7zip_test and analyze_7zip_result.                      *)
(***************************************************************************)
\* The substrings analyze_7zip_result looks for.
crash_indicators ==
    {"Exception", "Access violation", "Segmentation fault", "CRASH",
     "Stack overflow", "Heap corruption", "Fatal error", "Internal error"}

\* The decoded output of the tool is a sequence of tokens: an indicator, or a
\* piece of text that contains none (the match is case-sensitive).
OutputTokens == {"Exception", "CRASH", "Everything is Ok", "exception"}

\* `indicator in text` for some indicator.
HasIndicator(text) == \E k \in 1..Len(text) : text[k] \in crash_indicators

\* process_result is <<>> for None and <<p>> for a CompletedProcess p.
analyze_7zip_result_NoMemoryCode(process_result_) ==
    IF process_result_ = <<>> THEN TRUE
    ELSE LET p == process_result_[1] IN
         IF p.returncode = 2 THEN TRUE
         ELSE IF HasIndicator(p.stdout) \/ HasIndicator(p.stderr) THEN TRUE
         ELSE FALSE

analyze_7zip_result(process_result_) ==
    IF process_result_ = <<>> THEN TRUE
    ELSE LET p == process_result_[1] IN
         IF p.returncode = 2 THEN TRUE
         ELSE IF p.returncode = 8 THEN TRUE
         ELSE IF HasIndicator(p.stdout) \/ HasIndicator(p.stderr) THEN TRUE
         ELSE FALSE

\* What subprocess.run does: it returns a CompletedProcess, raises
\* TimeoutExpired, or raises another exception (the tool cannot be launched).
\* The result is the pair (crash_detected, process_result).
run_7zip_test(o) ==
    IF o.kind = "completed"
    THEN [crash |-> analyze_7zip_result(o.process), process |-> o.process]
    ELSE IF o.kind = "timeout"
    THEN [crash |-> TRUE, process |-> <<>>]
    ELSE [crash |-> FALSE, process |-> <<>>]

ReturnCodes == {0, 1, 2, 7, 8, 255}

Texts == UNION {[1..n -> OutputTokens] : n \in 0..MaxOutLen}

Completed(rc, out, err) ==
    [kind |-> "completed",
     process |-> <<[returncode |-> rc, stdout |-> out, stderr |-> err]>>]

NoProcess(kind) == [kind |-> kind, process |-> <<>>]

OracleOutcomes ==
    {Completed(rc, out, err) : rc \in ReturnCodes, out \in Texts, err \in Texts}
    \cup {NoProcess("timeout"), NoProcess("launch_error")}

\* The outcomes the loop of fuzz is run against.
LoopOutcomes ==
    {NoProcess("timeout"), NoProcess("launch_error"),
     Completed(0, <<"Everything is Ok">>, <<>>),
     Completed(2, <<>>, <<>>),
     Completed(1, <<>>, <<"CRASH">>)}

NoVerdict == [crash |-> FALSE, process |-> <<>>]

\* No mutation has been called.
NoMutation ==
    [status |-> "idle", mutation_type |-> 0, data |-> <<>>, fallback |-> FALSE,
     fallback_base |-> <<>>, hits |-> {}]

(***************************************************************************)
(* The crash archiver and the statistics.                                  *)
(***************************************************************************)
\* The early-stop threshold of fuzz.
CrashLimit == 50
\* Statistics are logged every ProgressEvery iterations.
ProgressEvery == 100

\* The files save_crash writes, in order; "makedirs" is os.makedirs(crash_dir).
\* The tool output is written only when there is a process result.
SaveFaults(process_result_) ==
    {"none", "makedirs", "crash.zip", "info.txt"}
    \cup (IF process_result_ # <<>> THEN {"7zip_output.txt"} ELSE {})

\* save_crash: the counter is incremented first; os.makedirs is outside the
\* try block, so its failure leaves save_crash as an exception; a failure of
\* a write is caught and logged.
save_crash(count, fault) ==
    [crash_count |-> count + 1, raised |-> (fault = "makedirs")]

\* print_stats: the line logged, <<iteration_count, crash_count>>, or <<>>
\* when self.start_time is not set.
print_stats(start_time_, iteration_count_, crash_count_) ==
    IF start_time_ # "None" THEN <<iteration_count_, crash_count_>> ELSE <<>>

(***************************************************************************)
(* main() and SevenZipFuzzer.fuzz.                                         *)
(***************************************************************************)
Budgets == {-1, 0, 1, CrashLimit, MaxIterations}

\* range(1, iterations + 1) has a next element n.
LoopHasNext_OneMore(n, budget) == n <= budget + 1

LoopHasNext(n, budget) == n <= budget

\* if self.crash_count >= 50: break
EarlyStop_Above(count) == count > CrashLimit

EarlyStop(count) == count >= CrashLimit

\* if i % 100 == 0 or crash_detected
ProgressDue(n, crash) == n % ProgressEvery = 0 \/ crash

\* The statements of the loop body, where an exception can arrive.
LoopBody ==
    {"mutate", "write_temp", "run_test", "save_crash", "remove", "progress",
     "early_stop"}

Init ==
    /\ pc = "main"
    /\ base_zip_exists \in BOOLEAN
    /\ sevenzip_arg \in {"None", "path"}
    /\ found_7zip \in {"None", "path"}
    /\ sevenzip_path = "None"
    /\ iterations \in Budgets
    /\ i = 0
    /\ iteration_count = 0
    /\ crash_count = 0
    /\ start_time = "None"
    /\ crash_detected = FALSE
    /\ process_result = <<>>
    /\ stop = "Running"
    /\ stats_out = <<>>
    /\ final_stats = <<>>
    /\ exit_status = -1
    /\ mutate_calls = 0
    /\ oracle_calls = 0
    /\ save_calls = 0
    /\ all_crash_like = TRUE
    /\ interrupted = FALSE
    /\ io_fault = "none"
    /\ completed = 0
    /\ seed_absent = ~base_zip_exists
    /\ seed_created = FALSE
    /\ base_data = <<>>
    /\ mut = NoMutation
    /\ outcome = NoProcess("none")
    /\ verdict = NoVerdict

\* SevenZipFuzzer.__init__: sys.exit(1) when the seed or the tool is missing.
Construct ==
    /\ pc = "main"
    /\ LET path == IF sevenzip_arg # "None" THEN sevenzip_arg ELSE found_7zip IN
       /\ sevenzip_path' = path
       /\ IF ~base_zip_exists \/ path = "None"
          THEN pc' = "exited" /\ exit_status' = 1
          ELSE pc' = "create_base_zip" /\ exit_status' = exit_status
    /\ UNCHANGED <<base_zip_exists, sevenzip_arg, found_7zip, seed_absent,
                   seed_created, loopVars, histVars, pureVars>>

\* create_base_zip: writes the seed only if the path does not exist.
CreateBaseZip ==
    /\ pc = "create_base_zip"
    /\ pc' = "fuzz"
    /\ base_zip_exists' = TRUE
    /\ seed_created' = ~base_zip_exists
    /\ UNCHANGED <<sevenzip_arg, found_7zip, sevenzip_path, exit_status,
                   seed_absent, loopVars, histVars, pureVars>>

\* fuzz, up to the try statement.
FuzzSetup ==
    /\ pc = "fuzz"
    /\ pc' = "for"
    /\ start_time' = "set"
    /\ UNCHANGED <<iterations, i, iteration_count, crash_count, crash_detected,
                   process_result, stop, stats_out, final_stats>>
    /\ UNCHANGED <<mainVars, histVars, pureVars>>

\* for i in range(1, iterations + 1): self.iteration_count = i
LoopHead ==
    /\ pc = "for"
    /\ IF LoopHasNext(i + 1, iterations)
       THEN /\ i' = i + 1
            /\ iteration_count' = i + 1
            /\ pc' = "mutate"
            /\ stop' = stop
       ELSE /\ pc' = "finally"
            /\ stop' = "Completed"
            /\ UNCHANGED <<i, iteration_count>>
    /\ stats_out' = <<>>
    /\ io_fault' = "none"
    /\ UNCHANGED <<iterations, crash_count, start_time, crash_detected,
                   process_result, final_stats>>
    /\ UNCHANGED <<mutate_calls, oracle_calls, save_calls, all_crash_like,
                   interrupted, completed>>
    /\ UNCHANGED <<mainVars, pureVars>>

\* mutated_data = self.mutate_zip_structure(base_data): it returns a buffer,
\* or raises (see SpecMutate), which ends the loop in `except Exception`.
MutateStep ==
    /\ pc = "mutate"
    /\ mutate_calls' = mutate_calls + 1
    /\ \E raised \in BOOLEAN :
          IF raised
          THEN pc' = "finally" /\ stop' = "Error"
          ELSE pc' = "write_temp" /\ stop' = stop
    /\ UNCHANGED <<iterations, i, iteration_count, crash_count, start_time,
                   crash_detected, process_result, stats_out, final_stats>>
    /\ UNCHANGED <<oracle_calls, save_calls, all_crash_like, interrupted,
                   io_fault, completed>>
    /\ UNCHANGED <<mainVars, pureVars>>

\* with open(temp_file, 'wb') as f: f.write(mutated_data)
WriteTemp ==
    /\ pc = "write_temp"
    /\ \E raised \in BOOLEAN :
          IF raised
          THEN pc' = "finally" /\ stop' = "Error"
          ELSE pc' = "run_test" /\ stop' = stop
    /\ UNCHANGED <<iterations, i, iteration_count, crash_count, start_time,
                   crash_detected, process_result, stats_out, final_stats>>
    /\ UNCHANGED <<mainVars, histVars, pureVars>>

\* crash_detected, process_result = self.run_7zip_test(temp_file)
RunTest ==
    /\ pc = "run_test"
    /\ \E o \in LoopOutcomes :
          LET r == run_7zip_test(o) IN
          /\ crash_detected' = r.crash
          /\ process_result' = r.process
          /\ all_crash_like' = (all_crash_like /\ r.crash)
          /\ pc' = IF r.crash THEN "save_crash" ELSE "remove"
          /\ completed' = IF r.crash THEN completed ELSE completed + 1
    /\ oracle_calls' = oracle_calls + 1
    /\ UNCHANGED <<iterations, i, iteration_count, crash_count, start_time,
                   stop, stats_out, final_stats>>
    /\ UNCHANGED <<mutate_calls, save_calls, interrupted, io_fault>>
    /\ UNCHANGED <<mainVars, pureVars>>

\* if crash_detected: self.save_crash(i, mutated_data, process_result)
SaveCrash ==
    /\ pc = "save_crash"
    /\ save_calls' = save_calls + 1
    /\ \E fault \in SaveFaults(process_result) :
          LET r == save_crash(crash_count, fault) IN
          /\ crash_count' = r.crash_count
          /\ io_fault' = fault
          /\ IF r.raised
             THEN pc' = "finally" /\ stop' = "Error" /\ completed' = completed
             ELSE pc' = "remove" /\ stop' = stop /\ completed' = completed + 1
    /\ UNCHANGED <<iterations, i, iteration_count, start_time, crash_detected,
                   process_result, stats_out, final_stats>>
    /\ UNCHANGED <<mutate_calls, oracle_calls, all_crash_like, interrupted>>
    /\ UNCHANGED <<mainVars, pureVars>>

\* try: os.remove(temp_file) / except: pass
RemoveTemp ==
    /\ pc = "remove"
    /\ pc' = "progress"
    /\ UNCHANGED <<mainVars, loopVars, histVars, pureVars>>

\* if i % 100 == 0 or crash_detected: self.print_stats()
Progress ==
    /\ pc = "progress"
    /\ pc' = "early_stop"
    /\ stats_out' = IF ProgressDue(i, crash_detected)
                    THEN print_stats(start_time, iteration_count, crash_count)
                    ELSE <<>>
    /\ UNCHANGED <<iterations, i, iteration_count, crash_count, start_time,
                   crash_detected, process_result, stop, final_stats>>
    /\ UNCHANGED <<mainVars, histVars, pureVars>>

\* if self.crash_count >= 50: break
EarlyStopCheck ==
    /\ pc = "early_stop"
    /\ IF EarlyStop(crash_count)
       THEN pc' = "finally" /\ stop' = "EarlyLimit"
       ELSE pc' = "for" /\ stop' = stop
    /\ stats_out' = <<>>
    /\ UNCHANGED <<iterations, i, iteration_count, crash_count, start_time,
                   crash_detected, process_result, final_stats>>
    /\ UNCHANGED <<mainVars, histVars, pureVars>>

\* A KeyboardInterrupt delivered while the loop runs. The bare `except:` around
\* os.remove catches it and the loop goes on; anywhere else it reaches
\* `except KeyboardInterrupt` of fuzz. Inside save_crash it arrives before or
\* after the counter is incremented.
KeyboardInterrupt ==
    /\ pc \in LoopBody \cup {"for"}
    /\ interrupted' = TRUE
    /\ IF pc = "remove"
       THEN pc' = "progress" /\ stop' = stop
       ELSE pc' = "finally" /\ stop' = "Interrupted"
    /\ \E counted \in BOOLEAN :
          crash_count' = IF pc = "save_crash" /\ counted
                         THEN crash_count + 1 ELSE crash_count
    /\ save_calls' = IF pc = "save_crash" THEN save_calls + 1 ELSE save_calls
    /\ UNCHANGED <<iterations, i, iteration_count, start_time, crash_detected,
                   process_result, stats_out, final_stats>>
    /\ UNCHANGED <<mutate_calls, oracle_calls, all_crash_like, io_fault,
                   completed>>
    /\ UNCHANGED <<mainVars, pureVars>>

\* finally: self.print_stats(); then main returns 0.
Finally ==
    /\ pc = "finally"
    /\ pc' = "done"
    /\ final_stats' = print_stats(start_time, iteration_count, crash_count)
    /\ stats_out' = <<>>
    /\ exit_status' = 0
    /\ UNCHANGED <<iterations, i, iteration_count, crash_count, start_time,
                   crash_detected, process_result, stop>>
    /\ UNCHANGED <<base_zip_exists, sevenzip_arg, found_7zip, sevenzip_path,
                   seed_absent, seed_created>>
    /\ UNCHANGED <<histVars, pureVars>>

Next ==
    \/ Construct
    \/ CreateBaseZip
    \/ FuzzSetup
    \/ LoopHead
    \/ MutateStep
    \/ WriteTemp
    \/ RunTest
    \/ SaveCrash
    \/ RemoveTemp
    \/ Progress
    \/ EarlyStopCheck
    \/ KeyboardInterrupt
    \/ Finally

Spec == Init /\ [][Next]_vars

(***************************************************************************)
(* Properties of main() and fuzz, checked under Spec.                      *)
(***************************************************************************)
\* The loop ended by exhausting the budget or by the early stop, not by an
\* interrupt or an exception.
EndedNormally == pc = "done" /\ stop \in {"Completed", "EarlyLimit"}

\* C1: in one run of fuzz the crash counter never exceeds 50 and no iteration
\* starts once it has reached 50; a run whose verdicts are all CrashLike, with
\* a budget of at least 50, that is not cut short by an interrupt or an
\* exception, stops by the early stop after exactly 50 calls of save_crash,
\* in iteration 50, with crash_count = 50.
C1_EarlyStopAtFifty ==
    /\ crash_count <= CrashLimit
    /\ save_calls <= CrashLimit
    /\ (pc = "mutate" => crash_count < CrashLimit)
    /\ (EndedNormally /\ all_crash_like /\ iterations >= CrashLimit
          => /\ stop = "EarlyLimit"
             /\ save_calls = CrashLimit
             /\ crash_count = CrashLimit
             /\ i = CrashLimit)

\* C1 witness: a run of the largest budget in which every verdict was
\* CrashLike has stopped early after 50 calls of save_crash.
C1_Witness ==
    /\ pc = "done"
    /\ stop = "EarlyLimit"
    /\ all_crash_like
    /\ iterations = MaxIterations
    /\ save_calls = CrashLimit
    /\ crash_count = CrashLimit

\* C5: a failure at any step of save_crash (creating the directory, writing
\* the candidate, the summary or the tool output) leaves the counter
\* incremented and the loop goes on with the rest of the iteration.
C5_ArchiveFailureContained ==
    [][(pc = "save_crash" /\ io_fault' # "none")
         => (crash_count' = crash_count + 1 /\ pc' = "remove")]_vars

\* C6: once a KeyboardInterrupt has been delivered in the loop, no later
\* iteration is started, and the final statistics are logged before fuzz
\* returns.
C6_InterruptEndsLoop ==
    /\ [][interrupted => i' = i]_vars
    /\ [](interrupted /\ pc = "done" => final_stats # <<>>)

\* C7: with budget 0 the mutation engine, the oracle and the archiver are
\* never called, and the final statistics line reports iteration count 0 and
\* crash count 0.
C7_ZeroBudget ==
    iterations = 0
      => /\ mutate_calls = 0
         /\ oracle_calls = 0
         /\ save_calls = 0
         /\ pc \notin LoopBody
         /\ (pc = "done" => final_stats = <<0, 0>>)

\* C7 witness: a run with budget 0 has returned after logging 0 iterations
\* and 0 crashes.
C7_Witness ==
    iterations = 0 /\ pc = "done" /\ stop = "Completed" /\ final_stats = <<0, 0>>

\* The tool path given or found is usable.
ToolValid == sevenzip_arg # "None" \/ found_7zip # "None"

\* C9: when the seed path does not exist and the tool path is valid, the
\* program does not exit at startup: it writes a seed and enters the loop.
C9_SeedSynthesized ==
    (seed_absent /\ ToolValid)
      => /\ pc # "exited"
         /\ (pc \notin {"main", "create_base_zip"} => seed_created)

\* C11: whenever statistics are logged (every 100th iteration, on a crash,
\* and in the finally clause however the loop stopped), the iteration count
\* in the line is the number of iterations whose mutation, oracle evaluation
\* and archiving (if any) have all finished.
C11_StatsCountCompleted ==
    /\ stats_out # <<>> => stats_out[1] = completed
    /\ final_stats # <<>> => final_stats[1] = completed

(***************************************************************************)
(* run_7zip_test as a function of what running the tool gave.              *)
(***************************************************************************)
\* The fuzzer object as constructed, with no run of main() in progress.
NoRun ==
    /\ base_zip_exists = TRUE
    /\ sevenzip_arg = "path"
    /\ found_7zip = "None"
    /\ sevenzip_path = "path"
    /\ iterations = 0
    /\ i = 0
    /\ iteration_count = 0
    /\ crash_count = 0
    /\ start_time = "None"
    /\ crash_detected = FALSE
    /\ process_result = <<>>
    /\ stop = "Running"
    /\ stats_out = <<>>
    /\ final_stats = <<>>
    /\ exit_status = -1
    /\ mutate_calls = 0
    /\ oracle_calls = 0
    /\ save_calls = 0
    /\ all_crash_like = TRUE
    /\ interrupted = FALSE
    /\ io_fault = "none"
    /\ completed = 0
    /\ seed_absent = FALSE
    /\ seed_created = FALSE

InitOracle ==
    /\ pc = "oracle_input"
    /\ NoRun
    /\ base_data = <<>>
    /\ mut = NoMutation
    /\ outcome \in OracleOutcomes
    /\ verdict = NoVerdict

OracleCall ==
    /\ pc = "oracle_input"
    /\ pc' = "oracle_output"
    /\ verdict' = run_7zip_test(outcome)
    /\ UNCHANGED <<mainVars, loopVars, histVars, base_data, mut, outcome>>

NextOracle == OracleCall

SpecOracle == InitOracle /\ [][NextOracle]_vars

\* Some crash indicator occurs in the text.
Mentions(text) == \E k \in DOMAIN text : text[k] \in crash_indicators

\* C4: a timeout gives CrashLike with no process handle; a failure to launch
\* gives Benign with no process handle; exit code 2 or 8 gives CrashLike
\* whatever the output; otherwise the verdict is CrashLike exactly when stdout
\* or stderr contains a crash indicator.
C4_VerdictPriority ==
    pc = "oracle_output"
      => /\ outcome.kind = "timeout"
              => verdict.crash /\ verdict.process = <<>>
         /\ outcome.kind = "launch_error"
              => ~verdict.crash /\ verdict.process = <<>>
         /\ outcome.kind = "completed"
              => LET p == outcome.process[1] IN
                 /\ verdict.process = <<p>>
                 /\ p.returncode \in {2, 8} => verdict.crash
                 /\ p.returncode \notin {2, 8}
                      => (verdict.crash <=> Mentions(p.stdout) \/ Mentions(p.stderr))

\* C4 witness: the tool ended with exit code 8 and printed "Everything is Ok",
\* and the verdict is CrashLike.
C4_Witness ==
    /\ pc = "oracle_output"
    /\ outcome = Completed(8, <<"Everything is Ok">>, <<>>)
    /\ verdict.crash
    /\ verdict.process # <<>>

(***************************************************************************)
(* mutate_zip_structure applied to a seed.                                 *)
(***************************************************************************)
\* A local header cut after its method field.
Seed9 == <<80, 75, 3, 4, 20, 0, 0, 0, 8>>

\* A central-directory signature at offset 2.
Seed12 == <<7, 9, 80, 75, 1, 2, 20, 0, 20, 0, 0, 0>>

\* A local header cut in its name-length field: signature, version, flags,
\* method, time, date, CRC-32, compressed size, uncompressed size.
Seed27 ==
    <<80, 75, 3, 4, 20, 0, 0, 0, 8, 0, 33, 66, 97, 80, 1, 2, 3, 4,
      5, 0, 0, 0, 9, 0, 0, 0, 1>>

MutateSeeds == {<<>>, Seed9, Seed12}

InitMutate ==
    /\ pc = "mutate_input"
    /\ NoRun
    /\ base_data \in MutateSeeds
    /\ mut = NoMutation
    /\ outcome = NoProcess("none")
    /\ verdict = NoVerdict

MutateCall ==
    /\ pc = "mutate_input"
    /\ pc' = "mutate_output"
    /\ mut' \in mutate_zip_structure(base_data)
    /\ UNCHANGED <<mainVars, loopVars, histVars, base_data, outcome, verdict>>

NextMutate == MutateCall

SpecMutate == InitMutate /\ [][NextMutate]_vars

\* C2: mutate_zip_structure never raises to its caller, for every buffer and
\* every strategy.
C2_NeverRaises == mut.status # "raised"

\* C10: a buffer returned by mutate_zip_structure carries the writes of one
\* strategy only: when the bit-flip fallback was used, it was applied to a
\* fresh copy of the seed.
C10_OneStrategyOnly ==
    (mut.status = "returned" /\ mut.fallback) => mut.fallback_base = base_data

(***************************************************************************)
(* One mutation strategy applied to a buffer.                              *)
(***************************************************************************)
Seed5 == <<80, 75, 3, 4, 20>>

Seed10 == <<80, 75, 3, 4, 20, 0, 0, 0, 8, 0>>

Seed20 == <<80, 75, 3, 4, 20, 0, 0, 0, 8, 0, 33, 66, 97, 80, 1, 2, 3, 4, 5, 0>>

BitFlipSeeds == {Seed5, Seed10, Seed20}

\* A local signature with no byte 8 positions after it.
Seed8 == <<80, 75, 3, 4, 20, 0, 0, 0>>

\* No signature.
SeedPlain == <<1, 2, 3, 4, 5, 6, 7, 8, 9, 10, 11, 12>>

\* A local signature at 0; writing method code 1 at offset 8 completes a
\* central signature at offset 6.
Seed15 == <<80, 75, 3, 4, 0, 0, 80, 75, 8, 2, 0, 0, 0, 0, 7>>

\* Local signatures at 0 and at 8: the write for the first one overwrites the
\* second.
Seed18 == <<80, 75, 3, 4, 0, 0, 0, 0, 80, 75, 3, 4, 0, 0, 0, 0, 9, 9>>

\* 200 bytes: a local signature at offset 0, a central signature at offset
\* 100.
Seed200 ==
    [p \in 1..200 |->
        IF p <= 4 THEN local_sig[p]
        ELSE IF p > 100 /\ p <= 104 THEN central_sig[p - 100]
        ELSE 16 + (p % 32)]

CompressionSeeds ==
    {Seed8, Seed9, Seed12, SeedPlain, Seed15, Seed18, Seed27, Seed200}

\* The buffers each strategy is applied to.
StrategySeeds(mutation_type) ==
    CASE mutation_type = 1 -> {Seed9, Seed12, Seed20}
      [] mutation_type = 2 -> {Seed9, Seed12}
      [] mutation_type = 3 -> CompressionSeeds
      [] mutation_type = 4 -> {Seed12, Seed20, Seed27}
      [] mutation_type = 5 -> {Seed20, Seed27}
      [] mutation_type = 6 -> {Seed5}
      [] mutation_type = 7 -> BitFlipSeeds
      [] mutation_type = 9 -> {Seed20, Seed27}
      [] OTHER -> {Seed10, Seed12}

InitStrategy ==
    /\ pc = "strategy_input"
    /\ NoRun
    /\ \E mutation_type \in (1..10) \ {8} :
          /\ mut = [NoMutation EXCEPT !.mutation_type = mutation_type]
          /\ base_data \in StrategySeeds(mutation_type)
    /\ outcome = NoProcess("none")
    /\ verdict = NoVerdict

\* The strategy mut.mutation_type names, called on base_data.
StrategyCall ==
    /\ pc = "strategy_input"
    /\ pc' = "strategy_output"
    /\ \E r \in Strategy(mut.mutation_type, base_data) :
          mut' = [mut EXCEPT !.status = IF r.raised THEN "raised" ELSE "returned",
                             !.data = r.data,
                             !.hits = r.hits]
    /\ UNCHANGED <<mainVars, loopVars, histVars, base_data, outcome, verdict>>

NextStrategy == StrategyCall

SpecStrategy == InitStrategy /\ [][NextStrategy]_vars

\* The positions at which two buffers of one length differ.
Differing(a, b) == {p \in 0..(Len(a) - 1) : At(a, p) # At(b, p)}

\* The bits in which two bytes differ.
DifferingBits(x, y) ==
    {bit \in 0..7 : (x \div (2 ^ bit)) % 2 # (y \div (2 ^ bit)) % 2}

\* C3: bit-flip mutation on a non-empty buffer of length L returns a buffer
\* of length L in which at least 1 and at most min(100, L/10) positions
\* differ from the input, each in exactly one bit.
C3_BitFlipChanges ==
    (pc = "strategy_output" /\ mut.mutation_type = 7 /\ Len(base_data) > 0)
      => /\ mut.status = "returned"
         /\ Len(mut.data) = Len(base_data)
         /\ Cardinality(Differing(mut.data, base_data)) >= 1
         /\ Cardinality(Differing(mut.data, base_data))
               <= Min(100, Len(base_data) \div 10)
         /\ \A p \in Differing(mut.data, base_data) :
               Cardinality(DifferingBits(At(mut.data, p), At(base_data, p))) = 1

\* C8: compression-method mutation keeps the length and changes only bytes 8
\* positions after a signature its scan met (a local signature of the input
\* or a central signature of the output), each to one of the nine method
\* codes; with a local signature at offset 0, byte 8 of the result is a
\* method code and bytes 0 to 7 are unchanged.
C8_MethodFieldOnly ==
    (pc = "strategy_output" /\ mut.mutation_type = 3)
      => /\ mut.status = "returned"
         /\ Len(mut.data) = Len(base_data)
         /\ \A h \in mut.hits :
               SigAt(base_data, h, local_sig) \/ SigAt(mut.data, h, central_sig)
         /\ \A p \in Differing(mut.data, base_data) :
               /\ At(mut.data, p) \in {0, 1, 8, 9, 12, 14, 96, 99, 255}
               /\ p - 8 \in mut.hits
         /\ (SigAt(base_data, 0, local_sig) /\ Len(base_data) > 8)
               => /\ At(mut.data, 8) \in {0, 1, 8, 9, 12, 14, 96, 99, 255}
                  /\ \A p \in 0..7 : At(mut.data, p) = At(base_data, p)

\* C8 witness: on the 200-byte seed with a local signature at offset 0 the
\* mutation has replaced the method byte at offset 8 by 255 and left bytes 0
\* to 7 as they were.
C8_Witness ==
    /\ pc = "strategy_output"
    /\ mut.mutation_type = 3
    /\ base_data = Seed200
    /\ At(mut.data, 8) = 255
    /\ At(mut.data, 8) # At(base_data, 8)
    /\ \A p \in 0..7 : At(mut.data, p) = At(base_data, p)

====
